---------------------------- MODULE Spec2Model ----------------------------
(***************************************************************************)
(* A model of the gradient-descent core of gcla/sklearn:                   *)
(*   - base.SGDOptimizer (SetTheta, UpdateParams, GetUpdate, Init,         *)
(*     Iterate) with its five update rules,                                *)
(*   - linearModel.LinFit, the epoch / mini-batch loop,                    *)
(*   - linearModel.LinFitGOM, the per-output concurrent fit.               *)
(*                                                                         *)
(* float64 values are modelled in fixed point: the integer v stands for    *)
(* the real v / Scale.  Matrices are records [r, c, d] with d the          *)
(* row-major data slice, as in gonum's mat.Dense; a nil *mat.Dense is      *)
(* NilMat.  A Go panic stops the program: the variable panic keeps its     *)
(* message and the state is the one the panic left behind.                 *)
(***************************************************************************)
EXTENDS Integers, Sequences, FiniteSets, TLC

(***************************************************************************)
(* Bounds of the model.                                                    *)
(***************************************************************************)
Scale == 1000
MaxCalls == 4
MaxMethodCalls == 4

(***************************************************************************)
(* Fixed-point arithmetic (float64 operations of the source).              *)
(***************************************************************************)
Abs(x) == IF x < 0 THEN -x ELSE x

Sgn(x) == IF x < 0 THEN -1 ELSE 1

\* the quotient rounded to the nearest grid value, as float64 operations
\* round to the nearest representable value
Quot(a, b) == Sgn(a) * Sgn(b) * ((2 * Abs(a) + Abs(b)) \div (2 * Abs(b)))

FMul(a, b) == Quot(a * b, Scale)

FDiv(a, b) == Quot(a * Scale, b)

RECURSIVE ISqrtIter(_, _, _)
ISqrtIter(x, lo, hi) ==
  IF lo >= hi THEN lo
  ELSE LET mid == (lo + hi + 1) \div 2
       IN  IF mid * mid <= x THEN ISqrtIter(x, mid, hi)
                             ELSE ISqrtIter(x, lo, mid - 1)

\* math.Sqrt on fixed-point values, rounded to the nearest grid value
FSqrt(a) ==
  IF a <= 0 THEN 0
  ELSE LET r == ISqrtIter(a * Scale, 0, 46340)
       IN  IF a * Scale - r * r > r THEN r + 1 ELSE r

\* math.Pow(b, t) for a whole exponent t >= 1
RECURSIVE FPow(_, _)
FPow(b, t) == IF t <= 1 THEN b ELSE FMul(FPow(b, t - 1), b)

One == Scale

SetMin(S) == CHOOSE x \in S : \A y \in S : x <= y

(***************************************************************************)
(* gonum mat.Dense values.                                                 *)
(***************************************************************************)
NilMat == [r |-> -1, c |-> -1, d |-> << >>]

NoPanic == "none"
ErrShape == "mat: dimension mismatch"
ErrNil == "nil pointer dereference"
ErrIndex == "mat: index out of range"

\* mat.NewDense(r, c, nil): a fresh zeroed matrix
NewDense(r, c) == [r |-> r, c |-> c, d |-> [k \in 1..(r * c) |-> 0]]

\* mat.NewDense(r, c, data): a matrix over the caller's slice
DenseOf(r, c, data) == [r |-> r, c |-> c, d |-> data]

Idx(m) == 1..(m.r * m.c)
RowOf(m, k) == (k - 1) \div m.c
ColOf(m, k) == (k - 1) % m.c
InDims(m, j, o) == m # NilMat /\ j >= 0 /\ j < m.r /\ o >= 0 /\ o < m.c
At(m, j, o) == m.d[j * m.c + o + 1]

\* init closure of GetUpdate: every element set to v0
Filled(m, v0) == [m EXCEPT !.d = [k \in Idx(m) |-> v0]]

\* colNorm returns the L2 norm of a matrix column
RECURSIVE SumSq(_, _, _)
SumSq(m, o, j) == IF j >= m.r THEN 0
                  ELSE FMul(At(m, j, o), At(m, j, o)) + SumSq(m, o, j + 1)

colNorm(m, o) == FSqrt(SumSq(m, o, 0))

(***************************************************************************)
(* The program state.                                                      *)
(*   s      the SGDOptimizer struct: scalars, variant flags, and Theta,    *)
(*          a pointer (an address of heap, or "nil")                       *)
(*   heap   the matrices: the caller's ("theta0", "theta1", "upd",         *)
(*          "locX") and the optimizer's own buffers, NilMat when nil       *)
(*   panic  NoPanic, or the message of the panic that stopped the program  *)
(*   last   the most recent call, its arguments and what it returned       *)
(*   prev   the call before it                                             *)
(*   ncalls number of calls made so far, limit the number explored         *)
(*   nupd   number of calls that ran GetUpdate                             *)
(*   ops    the operations Iterate returned, oldest first                  *)
(*   fit    a call of LinFit on the mini-batch path: its locals, position  *)
(*          and result                                                     *)
(*   gom    a call of LinFitGOM: its locals, workers, channel and result   *)
(***************************************************************************)
VARIABLES s, heap, panic, last, prev, ncalls, nupd, ops, limit, fit, gom

vars == <<s, heap, panic, last, prev, ncalls, nupd, ops, limit, fit, gom>>

Own == {"Update", "PrevUpdate", "GtNorm", "AdagradG", "AdadeltaU",
        "Mt", "Vt", "Mtcap", "Vtcap"}
Caller == {"theta0", "theta1", "upd", "locX", "thetaBest"}
Addrs == Own \cup Caller

\* optimize.Operation values used by the adapter
NoOperation == "NoOperation"
FuncGradEvaluation == "FuncEvaluation|GradEvaluation"
MajorIteration == "MajorIteration"

(***************************************************************************)
(* Constructors.  Hyper-parameters are the source's, on the fixed-point    *)
(* grid; Epsilon (1e-8) is the smallest positive value of the grid.        *)
(***************************************************************************)
Zeroed ==
  [StepSize |-> 0, Momentum |-> 0, GradientClipping |-> 0, RMSPropGamma |-> 0,
   Epsilon |-> 0, Adagrad |-> FALSE, Adadelta |-> FALSE, RMSProp |-> FALSE,
   Adam |-> FALSE, NFeatures |-> 0, NOutputs |-> 0, Theta |-> "nil",
   TimeStep |-> 0, Beta1 |-> 0, Beta2 |-> 0, lastOp |-> NoOperation]

\* The constructor's StepSize, 1e-4, is below the fixed-point grid (every
\* update would round to zero): the state modelled is the constructed value
\* with StepSize set to .05, as TestLinearRegression sets it (line 1124).
NewSGDOptimizer ==
  [Zeroed EXCEPT !.StepSize = (5 * Scale) \div 100,
                 !.Momentum = (9 * Scale) \div 10,
                 !.RMSPropGamma = (9 * Scale) \div 10,
                 !.Epsilon = 1]

NewAdagradOptimizer ==
  [NewSGDOptimizer EXCEPT !.StepSize = (5 * Scale) \div 10,
                          !.Momentum = 0,
                          !.Adagrad = TRUE,
                          !.GradientClipping = 10 * Scale]

\* NewAdadeltaOptimizer leaving a second variant flag set
NewAdadeltaOptimizerTwoFlags ==
  [NewSGDOptimizer EXCEPT !.Momentum = 0, !.Adadelta = TRUE, !.RMSProp = TRUE]

NewAdadeltaOptimizer ==
  [NewSGDOptimizer EXCEPT !.Momentum = 0, !.Adadelta = TRUE]

NewRMSPropOptimizer ==
  [NewSGDOptimizer EXCEPT !.StepSize = (5 * Scale) \div 100,
                          !.Momentum = 0,
                          !.RMSProp = TRUE,
                          !.RMSPropGamma = (9 * Scale) \div 10]

NewAdamOptimizer ==
  [Zeroed EXCEPT !.StepSize = (5 * Scale) \div 10,
                 !.Beta1 = (9 * Scale) \div 10,
                 !.Beta2 = (999 * Scale) \div 1000,
                 !.Epsilon = 1,
                 !.Adam = TRUE]

NewOptimizer(name) ==
  CASE name = "sgd" -> NewSGDOptimizer
    [] name = "adagrad" -> NewAdagradOptimizer
    [] name = "adadelta" -> NewAdadeltaOptimizer
    [] name = "rmsprop" -> NewRMSPropOptimizer
    [] name = "adam" -> NewAdamOptimizer

Names == {"sgd", "adagrad", "adadelta", "rmsprop", "adam"}

(***************************************************************************)
(* A call runs on a record st = [s, heap, panic]; every step of a call is  *)
(* skipped once st.panic is set.                                           *)
(***************************************************************************)
Raise(st, msg) == [st EXCEPT !.panic = msg]

\* m.Apply(fn, a) on the matrix at address ra: gonum compares the receiver's
\* shape against a's first, then writes fn(j, o, a[j,o]) element by element in
\* row-major order.  Ok(j, o) tells whether fn's own reads are in range; the
\* first element where they are not panics, the earlier ones stay written.
Apply(st, ra, a, F(_, _, _), Ok(_, _)) ==
  IF st.panic # NoPanic THEN st
  ELSE IF st.heap[ra] = NilMat \/ a = NilMat THEN Raise(st, ErrNil)
  ELSE IF st.heap[ra].r # a.r \/ st.heap[ra].c # a.c THEN Raise(st, ErrShape)
  ELSE LET m == st.heap[ra]
           bad == {k \in Idx(a) : ~Ok(RowOf(a, k), ColOf(a, k))}
           stop == IF bad = {} THEN a.r * a.c + 1 ELSE SetMin(bad)
           d2 == [k \in Idx(a) |->
                    IF k < stop THEN F(RowOf(a, k), ColOf(a, k), a.d[k])
                                ELSE m.d[k]]
       IN  [st EXCEPT !.heap[ra] = [m EXCEPT !.d = d2],
                      !.panic = IF bad = {} THEN NoPanic ELSE ErrIndex]

\* FirstCallAlloc allocating every buffer whatever the variant
FirstCallAllocEveryBuffer(st, grad) ==
  IF st.s.TimeStep # 0 THEN st
  ELSE LET z == NewDense(grad.r, grad.c)
       IN  [st EXCEPT !.heap =
              [a \in DOMAIN st.heap |->
                 IF a = "GtNorm" THEN NewDense(grad.c, 1)
                 ELSE IF a = "AdagradG" THEN Filled(z, st.s.Epsilon)
                 ELSE IF a = "AdadeltaU" THEN Filled(z, One)
                 ELSE IF a \in {"PrevUpdate", "Mt", "Vt", "Mtcap", "Vtcap"} THEN z
                 ELSE st.heap[a]]]

\* GetUpdate, lines 241-262: the allocations of the call made at TimeStep 0,
\* sized by the gradient
FirstCallAlloc(st, grad) ==
  IF st.s.TimeStep # 0 THEN st
  ELSE LET NFeatures == grad.r
           NOutputs == grad.c
           z == NewDense(NFeatures, NOutputs)
           sg == st.s
           h1 == IF sg.GradientClipping > 0
                 THEN [st.heap EXCEPT !["GtNorm"] = NewDense(NOutputs, 1)]
                 ELSE st.heap
           h2 == [h1 EXCEPT !["PrevUpdate"] = z]
           h3 == IF sg.Adagrad \/ sg.RMSProp \/ sg.Adadelta
                 THEN [h2 EXCEPT !["AdagradG"] = Filled(z, sg.Epsilon)]
                 ELSE h2
           h4 == IF sg.Adadelta
                 THEN [h3 EXCEPT !["AdadeltaU"] = Filled(z, One)]
                 ELSE h3
           h5 == IF sg.Adam
                 THEN [h4 EXCEPT !["Mt"] = z, !["Vt"] = z,
                                 !["Mtcap"] = z, !["Vtcap"] = z]
                 ELSE h4
       IN  [st EXCEPT !.heap = h5]

\* StepTime with the counter set rather than advanced
StepTimeOnce(st) == [st EXCEPT !.s.TimeStep = 1]

\* StepTime advancing the counter twice in one call
StepTimeTwice(st) == [st EXCEPT !.s.TimeStep = st.s.TimeStep + 2]

\* line 263: s.TimeStep += 1.
StepTime(st) == [st EXCEPT !.s.TimeStep = st.s.TimeStep + 1]

\* lines 267-271: s.GtNorm.Set(j, 0, colNorm(grad, j)) for each column of grad;
\* a column GtNorm has no row for panics after the earlier rows were set
SetGtNorm(st, grad) ==
  IF st.panic # NoPanic \/ ~(st.s.GradientClipping > 0) THEN st
  ELSE IF st.heap["GtNorm"] = NilMat THEN Raise(st, ErrNil)
  ELSE LET n == st.heap["GtNorm"]
           upto == IF grad.c <= n.r THEN grad.c ELSE n.r
           d2 == [k \in 1..n.r |->
                    IF k <= upto THEN colNorm(grad, k - 1) ELSE n.d[k]]
       IN  [st EXCEPT !.heap["GtNorm"] = [n EXCEPT !.d = d2],
                      !.panic = IF grad.c <= n.r THEN NoPanic ELSE ErrIndex]

\* gradientClipped judging every column by the norm of the first
gradientClippedByFirstNorm(st, grad, j, o) ==
  LET gradjo == At(grad, j, o)
      clip == st.s.GradientClipping
  IN  IF clip > 0 /\ At(st.heap["GtNorm"], 0, 0) > clip
      THEN FMul(gradjo, FDiv(clip, At(st.heap["GtNorm"], 0, 0)))
      ELSE gradjo

\* lines 272-278: the gradient value GetUpdate uses
gradientClipped(st, grad, j, o) ==
  LET gradjo == At(grad, j, o)
      clip == st.s.GradientClipping
  IN  IF clip > 0 /\ At(st.heap["GtNorm"], o, 0) > clip
      THEN FMul(gradjo, FDiv(clip, At(st.heap["GtNorm"], o, 0)))
      ELSE gradjo

\* whether gradientClipped(j, o) reads inside grad and GtNorm
ClipOk(st, grad, j, o) ==
  /\ InDims(grad, j, o)
  /\ st.s.GradientClipping > 0 => InDims(st.heap["GtNorm"], o, 0)

\* line 266
Eta(st) == (st.s.StepSize * 100) \div (100 + st.s.TimeStep)

\* lines 283-290: RMSProp's update, computed from the accumulator as it was
RMSPropStep(st, update, grad) ==
  Apply(st, update, st.heap["AdagradG"],
    LAMBDA j, o, v :
      FMul(-(IF st.s.TimeStep > 1 /\ Abs(At(st.heap["AdagradG"], j, o)) > One
             THEN FDiv(st.s.StepSize,
                       FSqrt(At(st.heap["AdagradG"], j, o) + st.s.Epsilon))
             ELSE st.s.StepSize),
           gradientClipped(st, grad, j, o)),
    LAMBDA j, o : ClipOk(st, grad, j, o))

\* lines 291-295 (RMSProp) and 314-317 (Adadelta): the decayed accumulator
DecayAdagradG(st, grad) ==
  Apply(st, "AdagradG", st.heap["AdagradG"],
    LAMBDA j, o, v :
      FMul(st.s.RMSPropGamma, v)
        + FMul(FMul(One - st.s.RMSPropGamma, gradientClipped(st, grad, j, o)),
               gradientClipped(st, grad, j, o)),
    LAMBDA j, o : ClipOk(st, grad, j, o))

\* lines 282-295
RMSPropUpdate(st, update, grad) ==
  DecayAdagradG(RMSPropStep(st, update, grad), grad)

\* lines 297-304
AdagradStep(st, update, grad) ==
  Apply(st, update, grad,
    LAMBDA j, o, v :
      FMul(-(IF st.s.TimeStep > 1
             THEN FDiv(st.s.StepSize,
                       FSqrt(At(st.heap["AdagradG"], j, o)) + st.s.Epsilon)
             ELSE st.s.StepSize),
           gradientClipped(st, grad, j, o)),
    LAMBDA j, o : InDims(st.heap["AdagradG"], j, o) /\ ClipOk(st, grad, j, o))

\* lines 305-310: accumulate gradients
SumAdagradG(st, grad) ==
  Apply(st, "AdagradG", st.heap["AdagradG"],
    LAMBDA j, o, v :
      v + FMul(gradientClipped(st, grad, j, o), gradientClipped(st, grad, j, o)),
    LAMBDA j, o : ClipOk(st, grad, j, o))

\* lines 296-310
AdagradUpdate(st, update, grad) ==
  SumAdagradG(AdagradStep(st, update, grad), grad)

\* lines 318-325
AdadeltaStep(st, update, grad) ==
  Apply(st, update, grad,
    LAMBDA j, o, v :
      FMul(-(IF st.s.TimeStep > 1
             THEN FDiv(FSqrt(At(st.heap["AdadeltaU"], j, o)),
                       FSqrt(At(st.heap["AdagradG"], j, o) + st.s.Epsilon))
             ELSE Eta(st)),
           gradientClipped(st, grad, j, o)),
    LAMBDA j, o : /\ ClipOk(st, grad, j, o)
                  /\ st.s.TimeStep > 1 =>
                       /\ InDims(st.heap["AdadeltaU"], j, o)
                       /\ InDims(st.heap["AdagradG"], j, o))

\* lines 326-329
DecayAdadeltaU(st, update) ==
  Apply(st, "AdadeltaU", st.heap["AdadeltaU"],
    LAMBDA j, o, v :
      FMul(st.s.RMSPropGamma, v)
        + FMul(FMul(One - st.s.RMSPropGamma, At(st.heap[update], j, o)),
               At(st.heap[update], j, o)),
    LAMBDA j, o : InDims(st.heap[update], j, o))

\* lines 311-329
AdadeltaUpdate(st, update, grad) ==
  DecayAdadeltaU(AdadeltaStep(DecayAdagradG(st, grad), update, grad), update)

\* lines 333-335: update biased first moment estimate
AdamMt(st, grad) ==
  Apply(st, "Mt", grad,
    LAMBDA j, o, v :
      FMul(st.s.Beta1, At(st.heap["Mt"], j, o))
        + FMul(One - st.s.Beta1, gradientClipped(st, grad, j, o)),
    LAMBDA j, o : ClipOk(st, grad, j, o))

\* lines 337-340: update biased second raw moment estimate
AdamVt(st, grad) ==
  Apply(st, "Vt", grad,
    LAMBDA j, o, v :
      FMul(st.s.Beta2, At(st.heap["Vt"], j, o))
        + FMul(FMul(One - st.s.Beta2, gradientClipped(st, grad, j, o)),
               gradientClipped(st, grad, j, o)),
    LAMBDA j, o : ClipOk(st, grad, j, o))

\* m.Scale(1/(1 - beta^TimeStep), a), lines 342 and 344
BiasCorrect(st, ra, beta, rb) ==
  Apply(st, ra, st.heap[rb],
    LAMBDA j, o, v : FMul(FDiv(One, One - FPow(beta, st.s.TimeStep)), v),
    LAMBDA j, o : TRUE)

\* lines 347-349
AdamStep(st, update) ==
  Apply(st, update, st.heap["Mtcap"],
    LAMBDA i, j, Mtcapij :
      FDiv(FMul(-st.s.StepSize, Mtcapij),
           FSqrt(At(st.heap["Vtcap"], i, j)) + st.s.Epsilon),
    LAMBDA i, j : InDims(st.heap["Vtcap"], i, j))

\* lines 330-349
AdamUpdate(st, update, grad) ==
  AdamStep(
    BiasCorrect(
      BiasCorrect(AdamVt(AdamMt(st, grad), grad), "Mtcap", st.s.Beta1, "Mt"),
      "Vtcap", st.s.Beta2, "Vt"),
    update)

\* lines 350-355: normal SGD
PlainUpdate(st, update, grad) ==
  Apply(st, update, grad,
    LAMBDA j, o, v :
      FDiv(FMul(-Eta(st), gradientClipped(st, grad, j, o)),
           FSqrt(One * st.s.TimeStep)),
    LAMBDA j, o : ClipOk(st, grad, j, o))

\* lines 282-355: the active variant's rule
VariantUpdate(st, update, grad) ==
  IF st.panic # NoPanic THEN st
  ELSE IF st.s.RMSProp THEN RMSPropUpdate(st, update, grad)
  ELSE IF st.s.Adagrad THEN AdagradUpdate(st, update, grad)
  ELSE IF st.s.Adadelta THEN AdadeltaUpdate(st, update, grad)
  ELSE IF st.s.Adam THEN AdamUpdate(st, update, grad)
  ELSE PlainUpdate(st, update, grad)

\* lines 356-361
ApplyMomentum(st, update) ==
  IF st.panic # NoPanic \/ ~(st.s.Momentum > 0) THEN st
  ELSE Apply(st, update, st.heap[update],
         LAMBDA j, o, updjo :
           FMul(st.s.Momentum, At(st.heap["PrevUpdate"], j, o)) + updjo,
         LAMBDA j, o : InDims(st.heap["PrevUpdate"], j, o))

\* ClonePrevUpdate leaving PrevUpdate as it was
ClonePrevUpdateSkipped(st, update) == st

\* line 362: s.PrevUpdate.Clone(update) copies update into storage of its own
ClonePrevUpdate(st, update) ==
  IF st.panic # NoPanic THEN st
  ELSE IF st.heap["PrevUpdate"] = NilMat \/ st.heap[update] = NilMat
       THEN Raise(st, ErrNil)
  ELSE [st EXCEPT !.heap["PrevUpdate"] = st.heap[update]]

\* GetUpdate compute the update from grad (update is an address of heap)
GetUpdate(st, update, grad) ==
  ClonePrevUpdate(
    ApplyMomentum(
      VariantUpdate(SetGtNorm(StepTime(FirstCallAlloc(st, grad)), grad),
                    update, grad),
      update),
    update)

\* m.Add(a, b) with m = a the matrix at address ra and b the one at rb
AddInto(st, ra, rb) ==
  IF st.panic # NoPanic THEN st
  ELSE IF ra = "nil" THEN Raise(st, ErrNil)
  ELSE IF st.heap[ra] = NilMat \/ st.heap[rb] = NilMat THEN Raise(st, ErrNil)
  ELSE IF st.heap[ra].r # st.heap[rb].r \/ st.heap[ra].c # st.heap[rb].c
       THEN Raise(st, ErrShape)
  ELSE [st EXCEPT !.heap[ra].d =
          [k \in Idx(st.heap[ra]) |-> st.heap[ra].d[k] + st.heap[rb].d[k]]]

\* SetTheta should be called before first call to UpdateParams
SetTheta(st, Theta) ==
  [st EXCEPT !.s.NFeatures = st.heap[Theta].r,
             !.s.NOutputs = st.heap[Theta].c,
             !.s.Theta = Theta]

GetTheta(st) == st.s.Theta

GetTimeStep(st) == st.s.TimeStep

\* lines 230-233: the update buffer is allocated on the first call
AllocUpdate(st, grad) ==
  IF st.heap["Update"] = NilMat
  THEN [st EXCEPT !.heap["Update"] = NewDense(grad.r, grad.c)]
  ELSE st

\* AddTheta replacing Theta by the update instead of adding to it
AddThetaOverwrite(st) ==
  IF st.panic # NoPanic THEN st
  ELSE IF st.s.Theta = "nil" THEN Raise(st, ErrNil)
  ELSE [st EXCEPT !.heap[st.s.Theta] = st.heap["Update"]]

\* line 235: s.Theta.Add(s.Theta, s.Update)
AddTheta(st) == AddInto(st, st.s.Theta, "Update")

\* UpdateParams updates theta from gradient
UpdateParams(st, grad) ==
  AddTheta(GetUpdate(AllocUpdate(st, grad), "Update", grad))

(***************************************************************************)
(* SGDOptimizer as an optimize.Method.  A call returns [st, op, err]; the  *)
(* location's X is the slice at address "locX" (an n x 1 matrix).          *)
(***************************************************************************)
Ret(st, op, err) == [st |-> st, op |-> op, err |-> err]

\* Init without the rewrite of NOutputs (lines 385-387)
MethodInitNoRewrite(st, n) ==
  IF st.s.NFeatures = 0 \/ st.s.NOutputs = 0
  THEN Ret([st EXCEPT !.s.NFeatures = n], NoOperation, FALSE)
  ELSE IF n # st.s.NFeatures * st.s.NOutputs
       THEN Ret(st, NoOperation, TRUE)
       ELSE Ret([st EXCEPT !.heap["Update"] =
                              NewDense(st.s.NFeatures, st.s.NOutputs)],
                FuncGradEvaluation, FALSE)

\* Init initializes the method based on the initial data in loc
MethodInit(st, n) ==
  IF st.s.NFeatures = 0 \/ st.s.NOutputs = 0
  THEN Ret([st EXCEPT !.s.NFeatures = n], NoOperation, FALSE)
  ELSE LET st1 == IF n = st.s.NFeatures THEN [st EXCEPT !.s.NOutputs = 1]
                  ELSE st
       IN  IF n # st1.s.NFeatures * st1.s.NOutputs
           THEN Ret(st1, NoOperation, TRUE)
           ELSE Ret([st1 EXCEPT !.heap["Update"] =
                                   NewDense(st1.s.NFeatures, st1.s.NOutputs)],
                    FuncGradEvaluation, FALSE)

\* the operation of the commented-out line 404: always a function and
\* gradient evaluation
NextOpAlwaysEvaluate(lastOp) == FuncGradEvaluation

\* lines 405-410: the operation Iterate returns, and keeps in lastOp
NextOp(lastOp) ==
  IF lastOp = FuncGradEvaluation THEN MajorIteration ELSE FuncGradEvaluation

\* Iterate leaving loc.X as it was
AddLocSkipped(st) == st

\* line 403: theta.Add(theta, s.Update), theta the NFeatures x NOutputs view
\* of loc.X
AddLoc(st) ==
  IF st.panic # NoPanic THEN st
  ELSE IF st.heap["Update"] = NilMat THEN Raise(st, ErrNil)
  ELSE IF st.heap["Update"].r # st.s.NFeatures
            \/ st.heap["Update"].c # st.s.NOutputs
       THEN Raise(st, ErrShape)
  ELSE [st EXCEPT !.heap["locX"].d =
          [k \in 1..Len(st.heap["locX"].d) |->
             st.heap["locX"].d[k] + st.heap["Update"].d[k]]]

\* lines 405-411
ReturnOp(st, op) ==
  IF st.panic # NoPanic THEN Ret(st, NoOperation, FALSE)
  ELSE Ret([st EXCEPT !.s.lastOp = op], op, FALSE)

\* Iterate retrieves data from loc, performs one iteration of the method,
\* updates loc and returns the next operation (gradient: loc.Gradient).
\* mat.NewDense(NFeatures, NOutputs, loc.X) panics unless the slice has
\* NFeatures*NOutputs elements.
MethodIterate(st, gradient) ==
  IF st.s.NFeatures * st.s.NOutputs # st.heap["locX"].r
  THEN Ret(Raise(st, ErrShape), NoOperation, FALSE)
  ELSE ReturnOp(
         AddLoc(GetUpdate(st, "Update",
                          DenseOf(st.s.NFeatures, st.s.NOutputs, gradient))),
         NextOp(st.s.lastOp))

(***************************************************************************)
(* Inputs.                                                                 *)
(***************************************************************************)
Rows == 2
Cols == 2

\* gradient data of length n: pattern 1 has a first column of norm > 10
\* (clipped by Adagrad's GradientClipping) and a small second one; pattern 2
\* is zero but for its first element, which alone exceeds that norm
GradData(p, n) ==
  [k \in 1..n |-> IF p = 1 THEN (IF k % 2 = 1 THEN 12 * Scale ELSE -5 * Scale)
                  ELSE (IF k = 1 THEN 15 * Scale ELSE 0)]

Patterns == {1, 2}

Grads == {DenseOf(Rows, Cols, GradData(p, Rows * Cols)) : p \in Patterns}

LocLens == {Rows, Rows * Cols, Rows * Cols + 1}

InitHeap ==
  [a \in Addrs |->
     IF a \in {"theta0", "theta1", "upd"} THEN NewDense(Rows, Cols)
     ELSE IF a = "locX" THEN NewDense(Rows, 1)
     ELSE NilMat]

\* math.Inf(1.)
Inf == 1000000

\* LinFitResult
NoResult ==
  [Converged |-> FALSE, RMSE |-> 0, J |-> 0, Epoch |-> 0, Theta |-> "nil"]

\* no call of LinFit made yet.  Ghost fields: optEpochs and optSize, the
\* options as the caller set them; batches, the row ranges of the
\* mini-batches of the epoch in progress, each handed to one UpdateParams;
\* hist, for each epoch executed, the J and rmse of its full-dataset loss,
\* the working Theta at its end and its mini-batches
NoFit ==
  [pc |-> "idle", nSamples |-> 0, Epochs |-> 0, miniBatchSize |-> 0,
   miniBatch |-> 0, epoch |-> 0, J |-> Inf, JBest |-> Inf, rmse |-> Inf,
   converged |-> FALSE, optEpochs |-> 0, optSize |-> 0, batches |-> << >>,
   hist |-> << >>, result |-> NoResult]

\* no call of LinFitGOM made yet
NoGom ==
  [pc |-> "idle", nOutputs |-> 0, hasRecorder |-> FALSE, thetaM |-> NilMat,
   err |-> "nil", rmse |-> 0, epoch |-> 0, converged |-> FALSE,
   chanret |-> << >>, o |-> 0, o1 |-> 0, workers |-> << >>,
   launches |-> << >>, order |-> << >>, acc |-> {}, result |-> NoResult]

\* call: the method called; arg: the matrix passed (SetTheta, GetUpdate);
\* n: len(loc.X); grad: the gradient; update: the update buffer after the
\* call; op, err: what Init or Iterate returned; ts0, nf0, no0: TimeStep,
\* NFeatures and NOutputs before the call
NoCall ==
  [call |-> "none", arg |-> "nil", n |-> 0, grad |-> NilMat, update |-> NilMat,
   op |-> NoOperation, err |-> FALSE, ts0 |-> 0, nf0 |-> 0, no0 |-> 0]

\* A constructed optimizer; NFeatures and NOutputs are left at zero or set by
\* the caller ("need only to be initialized when SGDOptimizer is used as an
\* optimize.Method", line 128).
InitOptimizer(maxcalls) ==
  /\ \E name \in Names, dims \in {<<0, 0>>, <<Rows, Cols>>} :
       s = [NewOptimizer(name) EXCEPT !.NFeatures = dims[1], !.NOutputs = dims[2]]
  /\ heap = InitHeap
  /\ panic = NoPanic
  /\ last = NoCall
  /\ prev = NoCall
  /\ ncalls = 0
  /\ nupd = 0
  /\ ops = << >>
  /\ limit = maxcalls
  /\ fit = NoFit
  /\ gom = NoGom

St == [s |-> s, heap |-> heap, panic |-> panic]

Running == panic = NoPanic /\ ncalls < limit

\* the record of a call made now
Call(name) ==
  [NoCall EXCEPT !.call = name, !.ts0 = s.TimeStep,
                 !.nf0 = s.NFeatures, !.no0 = s.NOutputs]

\* the state a call leaves: st, the record of the call, and whether the call
\* ran GetUpdate
Done(st, rec, ran) ==
  /\ s' = st.s
  /\ heap' = st.heap
  /\ panic' = st.panic
  /\ last' = rec
  /\ prev' = last
  /\ ncalls' = ncalls + 1
  /\ nupd' = IF ran THEN nupd + 1 ELSE nupd
  /\ ops' = IF rec.call = "Iterate" /\ st.panic = NoPanic
            THEN Append(ops, rec.op) ELSE ops
  /\ UNCHANGED <<limit, fit, gom>>

CallSetTheta ==
  /\ Running
  /\ \E a \in {"theta0", "theta1"} :
       Done(SetTheta(St, a), [Call("SetTheta") EXCEPT !.arg = a], FALSE)

CallUpdateParams ==
  /\ Running
  /\ \E grad \in Grads :
       LET st == UpdateParams(St, grad)
       IN  Done(st, [Call("UpdateParams") EXCEPT !.grad = grad,
                                                 !.update = st.heap["Update"]],
                TRUE)

\* a caller computing an update into a buffer of its own
CallGetUpdate ==
  /\ Running
  /\ \E grad \in Grads :
       LET st == GetUpdate(St, "upd", grad)
       IN  Done(st, [Call("GetUpdate") EXCEPT !.arg = "upd", !.grad = grad,
                                              !.update = st.heap["upd"]],
                TRUE)

\* the location handed to Init or Iterate: the caller's, of length n
WithLoc(st, n) ==
  IF st.heap["locX"].r = n THEN st
  ELSE [st EXCEPT !.heap["locX"] = NewDense(n, 1)]

CallInit ==
  /\ Running
  /\ \E n \in LocLens :
       LET ret == MethodInit(WithLoc(St, n), n)
       IN  Done(ret.st, [Call("Init") EXCEPT !.n = n, !.op = ret.op,
                                             !.err = ret.err],
                FALSE)

CallIterate ==
  /\ Running
  /\ \E n \in LocLens, p \in Patterns :
       LET ret == MethodIterate(WithLoc(St, n), GradData(p, n))
       IN  Done(ret.st,
                [Call("Iterate") EXCEPT !.n = n,
                                        !.grad = DenseOf(n, 1, GradData(p, n)),
                                        !.update = ret.st.heap["Update"],
                                        !.op = ret.op, !.err = ret.err],
                s.NFeatures * s.NOutputs = n)

(***************************************************************************)
(* Spec: a caller using the optimizer through every method it exports.     *)
(* SpecMethod: an optimize driver (Init, Iterate) on an optimizer whose    *)
(* shape the caller may also rebind with SetTheta.                         *)
(***************************************************************************)
Init == InitOptimizer(MaxCalls)

Next ==
  \/ CallSetTheta
  \/ CallUpdateParams
  \/ CallGetUpdate
  \/ CallInit
  \/ CallIterate

Spec == Init /\ [][Next]_vars

InitMethod == InitOptimizer(MaxMethodCalls)

NextMethod ==
  \/ CallSetTheta
  \/ CallInit
  \/ CallIterate

SpecMethod == InitMethod /\ [][NextMethod]_vars

(***************************************************************************)
(* Properties of the optimizer (Spec) and of its optimize.Method adapter   *)
(* (SpecMethod).                                                           *)
(***************************************************************************)
UpdateCalls == {"UpdateParams", "GetUpdate"}

CallerThetas == {"theta0", "theta1"}

\* element-wise sum of two data slices of the same length
SumData(d1, d2) == [k \in DOMAIN d1 |-> d1[k] + d2[k]]

\* C1: GetTimeStep is the number of update calls made since construction:
\* it is N after N calls of UpdateParams on a fresh optimizer, every update
\* call raises it by exactly one, and no call lowers or resets it.
C1_TimeStepCountsUpdates ==
  /\ GetTimeStep(St) = nupd
  /\ last.call \in UpdateCalls => GetTimeStep(St) = last.ts0 + 1
  /\ last.call \notin UpdateCalls \cup {"Iterate"} => GetTimeStep(St) = last.ts0
  /\ GetTimeStep(St) >= last.ts0

\* three calls of UpdateParams in a row on a bound Theta
C1_Witness ==
  /\ panic = NoPanic
  /\ last.call = "UpdateParams"
  /\ prev.call = "UpdateParams"
  /\ ncalls = 4
  /\ nupd = 3
  /\ GetTimeStep(St) = 3

\* the case of C2: two calls of GetUpdate in a row with the same gradient
TwoGetUpdates ==
  /\ last.call = "GetUpdate"
  /\ prev.call = "GetUpdate"
  /\ last.grad = prev.grad

C3_ThetaMutatedOnlyByUpdateParams ==
  [][ncalls' = ncalls + 1 =>
        /\ last'.call = "GetUpdate" =>
              \A a \in CallerThetas : heap'[a] = heap[a]
        /\ (last'.call = "UpdateParams" /\ panic' = NoPanic) =>
              /\ GetTheta(St) \in CallerThetas
              /\ last'.update = GetUpdate(AllocUpdate(St, last'.grad), "Update",
                                          last'.grad).heap["Update"]
              /\ heap'[s.Theta].d = SumData(heap[s.Theta].d, last'.update.d)
              /\ heap'[s.Theta].r = heap[s.Theta].r
              /\ heap'[s.Theta].c = heap[s.Theta].c
              /\ \A a \in CallerThetas \ {s.Theta} : heap'[a] = heap[a]
        /\ GetTheta([s |-> s']) =
              IF last'.call = "SetTheta" THEN last'.arg ELSE GetTheta(St)]_vars

\* UpdateParams has added a non-zero update to a Theta that was not zero
C3_Witness ==
  /\ panic = NoPanic
  /\ last.call = "UpdateParams"
  /\ prev.call = "UpdateParams"
  /\ GetTheta(St) = "theta1"
  /\ \E k \in Idx(last.update) :
        last.update.d[k] # 0 /\ heap["theta1"].d[k] # last.update.d[k]
  /\ heap["theta0"] = NewDense(Rows, Cols)

\* C9: the operations Iterate returns alternate strictly between
\* FuncGradEvaluation and MajorIteration, and lastOp is the operation most
\* recently returned.
C9_IterateAlternates ==
  /\ \A i \in 1..Len(ops) : ops[i] \in {FuncGradEvaluation, MajorIteration}
  /\ \A i \in 1..(Len(ops) - 1) : ops[i] # ops[i + 1]
  /\ Len(ops) > 0 => s.lastOp = ops[Len(ops)]
  /\ (last.call = "Iterate" /\ panic = NoPanic) =>
        (~last.err /\ Len(ops) > 0 /\ last.op = ops[Len(ops)])

\* three calls of Iterate have returned
C9_Witness ==
  /\ panic = NoPanic
  /\ last.call = "Iterate"
  /\ Len(ops) = 3
  /\ ops[3] = ops[1]
  /\ s.lastOp = ops[3]

\* the case of C10: len(loc.X) differs from NFeatures x NOutputs
SizeMismatch == last.call = "Init" /\ last.n # last.nf0 * last.no0

ShapeKept == s.NFeatures = last.nf0 /\ s.NOutputs = last.no0

\* C10 as stated: Init returns a size-mismatch error whenever len(loc.X)
\* differs from NFeatures x NOutputs, and never rewrites the shape to make
\* the sizes agree.
C10_InitRejectsEveryMismatch ==
  SizeMismatch => (last.err /\ last.op = NoOperation /\ ShapeKept)

\* C10, amended: with NFeatures or NOutputs zero, Init sets NFeatures to
\* len(loc.X) and returns neither an operation nor an error; with len(loc.X)
\* equal to NFeatures it sets NOutputs to one and succeeds; it returns the
\* size-mismatch error, and leaves the shape alone, exactly when both are
\* non-zero and len(loc.X) is neither NFeatures nor NFeatures x NOutputs.
C10_InitErrorCases ==
  last.call = "Init" =>
     /\ last.err <=> /\ last.nf0 # 0
                     /\ last.no0 # 0
                     /\ last.n # last.nf0
                     /\ last.n # last.nf0 * last.no0
     /\ last.err => (last.op = NoOperation /\ ShapeKept)
     /\ (last.nf0 = 0 \/ last.no0 = 0) =>
           /\ s.NFeatures = last.n
           /\ s.NOutputs = last.no0
           /\ last.op = NoOperation
     /\ (last.nf0 # 0 /\ last.no0 # 0 /\ last.n = last.nf0) =>
           /\ s.NFeatures = last.nf0
           /\ s.NOutputs = 1
           /\ last.op = FuncGradEvaluation
     /\ (last.nf0 # 0 /\ last.no0 # 0 /\ last.n = last.nf0 * last.no0) =>
           (last.op = FuncGradEvaluation /\ (last.n # last.nf0 => ShapeKept))

\* Init has returned the size-mismatch error
C10_Witness ==
  /\ SizeMismatch
  /\ last.err
  /\ last.op = NoOperation
  /\ last.nf0 = Rows
  /\ last.no0 = Cols
  /\ ShapeKept

(***************************************************************************)
(* LinFit on the mini-batch path (opts.Solver set, no GOMethodCreator).    *)
(* thetaSlice is the data of the matrix at "theta0", the solver's working  *)
(* Theta; thetaSliceBest is the data of the matrix at "thetaBest".  What   *)
(* opts.Loss returns depends on X and Ytrue, which are not modelled: J,    *)
(* the gradient and the rmse of an epoch are drawn from small sets.        *)
(***************************************************************************)
MaxEpochs == 3

SampleCounts == {1, 2}

\* opts.MiniBatchSize: unset, or set
BatchSizes == {0, 2}

JValues == {One, 2 * One, Inf}

\* an rmse whose root is below opts.Tol, and one below opts.Tol whose root
\* is not
RmseValues == {One \div 100, (36 * One) \div 100}

\* opts.Tol
Tol == One \div 2

\* the calls of LinFit explored, <<nSamples, opts.Epochs, opts.MiniBatchSize>>:
\* small datasets with the epoch budget set, one whose last mini-batch is
\* short, and datasets so large that the default budget, 1e6 / nSamples, is
\* 2, 1 or 0 epochs
FitInputs ==
  (SampleCounts \X (1..MaxEpochs) \X BatchSizes)
    \cup {<<3, 1, 2>>, <<500000, 0, 500000>>, <<1000000, 0, 1000000>>,
          <<2000000, 0, 0>>}

\* lines 829-831
EpochBudget(optEpochs, nSamples) ==
  IF optEpochs <= 0 THEN 1000000 \div nSamples ELSE optEpochs

Min(a, b) == IF a < b THEN a ELSE b

Max(a, b) == IF a > b THEN a ELSE b

\* lines 799-808
MiniBatchSizeOf(nSamples, optSize) ==
  LET size == IF optSize > 0 THEN optSize
              ELSE Max(1, Min(100, ISqrtIter(nSamples, 0, 46340)))
  IN  Max(1, Min(nSamples, size))

\* lines 784-797: the slices, and Theta as opts.ThetaInitializer leaves it
FitBuffers(st) ==
  [st EXCEPT !.heap["theta0"] = Filled(NewDense(Rows, Cols), 5),
             !.heap["thetaBest"] = NewDense(Rows, Cols)]

\* a loop that runs its whole budget
LoopHeadWholeBudget(f) ==
  IF f.epoch <= f.Epochs
  THEN [f EXCEPT !.pc = "batch", !.miniBatch = 0]
  ELSE [f EXCEPT !.pc = "return"]

\* line 840: for ...; epoch <= opts.Epochs && !converged; ...
LoopHead(f) ==
  IF f.epoch <= f.Epochs /\ ~f.converged
  THEN [f EXCEPT !.pc = "batch", !.miniBatch = 0]
  ELSE [f EXCEPT !.pc = "return"]

\* lines 768-840, up to the first test of the epoch loop
LinFitCall ==
  /\ fit.pc = "idle"
  /\ panic = NoPanic
  /\ \E in \in FitInputs :
       LET st == SetTheta(FitBuffers(St), "theta0")
       IN  /\ s' = st.s
           /\ heap' = st.heap
           /\ panic' = st.panic
           /\ fit' = LoopHead([NoFit EXCEPT
                        !.nSamples = in[1],
                        !.optEpochs = in[2],
                        !.optSize = in[3],
                        !.Epochs = EpochBudget(in[2], in[1]),
                        !.miniBatchSize = MiniBatchSizeOf(in[1], in[3]),
                        !.epoch = 1])
  /\ UNCHANGED <<last, prev, ncalls, nupd, ops, limit, gom>>

MoreBatches(f) == f.miniBatch * f.miniBatchSize < f.nSamples

\* a mini-batch that runs past the last row
BatchRangeUnclipped(f) ==
  [start |-> f.miniBatch * f.miniBatchSize,
   end |-> f.miniBatch * f.miniBatchSize + f.miniBatchSize]

\* lines 843-848: the rows [miniBatchStart, miniBatchEnd) of the mini-batch
BatchRange(f) ==
  [start |-> f.miniBatch * f.miniBatchSize,
   end |-> Min(f.miniBatch * f.miniBatchSize + f.miniBatchSize, f.nSamples)]

\* lines 842-860: the gradient of the loss on one mini-batch and the solver's
\* update; the J of a mini-batch is overwritten at line 861 before any use
\* and is not kept
LinFitMiniBatch ==
  /\ fit.pc = "batch"
  /\ panic = NoPanic
  /\ MoreBatches(fit)
  /\ \E grad \in Grads :
       LET st == UpdateParams(St, grad)
       IN  /\ s' = st.s
           /\ heap' = st.heap
           /\ panic' = st.panic
           /\ fit' = [fit EXCEPT
                        !.miniBatch = fit.miniBatch + 1,
                        !.batches = Append(fit.batches, BatchRange(fit))]
           /\ nupd' = nupd + 1
  /\ UNCHANGED <<last, prev, ncalls, ops, limit, gom>>

\* line 868
IsBest(J, JBest) == J < JBest

\* lines 869-870: JBest = J; copy(thetaSliceBest, thetaSlice)
Snapshot(h, J, JBest) ==
  IF IsBest(J, JBest)
  THEN [h EXCEPT !["thetaBest"].d = h["theta0"].d]
  ELSE h

\* the tolerance test on the rmse itself
ConvergedNoRoot(rmse) == rmse < Tol

\* line 874: converged = math.Sqrt(rmse) < opts.Tol
Converged(rmse) == FSqrt(rmse) < Tol

\* lines 861-882: the full-dataset loss that ends an epoch, the snapshot,
\* the convergence test, epoch++ and the next test of the loop
LinFitEndEpoch ==
  /\ fit.pc = "batch"
  /\ panic = NoPanic
  /\ ~MoreBatches(fit)
  /\ \E J \in JValues, rmse \in RmseValues :
       /\ heap' = Snapshot(heap, J, fit.JBest)
       /\ fit' = LoopHead([fit EXCEPT
                    !.J = J,
                    !.JBest = IF IsBest(J, fit.JBest) THEN J ELSE fit.JBest,
                    !.rmse = rmse,
                    !.converged = Converged(rmse),
                    !.hist = Append(fit.hist,
                                    [J |-> J, theta |-> heap["theta0"].d,
                                     rmse |-> rmse, batches |-> fit.batches]),
                    !.batches = << >>,
                    !.epoch = fit.epoch + 1])
  /\ UNCHANGED <<s, panic, last, prev, ncalls, nupd, ops, limit, gom>>

\* lines 883-885
LinFitReturn ==
  /\ fit.pc = "return"
  /\ fit' = [fit EXCEPT
               !.pc = "done",
               !.J = fit.JBest,
               !.result = [Converged |-> fit.converged, RMSE |-> fit.rmse,
                           J |-> fit.JBest, Epoch |-> fit.epoch,
                           Theta |-> "thetaBest"]]
  /\ UNCHANGED <<s, heap, panic, last, prev, ncalls, nupd, ops, limit, gom>>

InitFit ==
  /\ \E name \in Names : s = NewOptimizer(name)
  /\ heap = InitHeap
  /\ panic = NoPanic
  /\ last = NoCall
  /\ prev = NoCall
  /\ ncalls = 0
  /\ nupd = 0
  /\ ops = << >>
  /\ limit = 0
  /\ fit = NoFit
  /\ gom = NoGom

NextFit ==
  \/ LinFitCall
  \/ LinFitMiniBatch
  \/ LinFitEndEpoch
  \/ LinFitReturn

SpecFit == InitFit /\ [][NextFit]_vars

\* the epoch whose full-dataset J is the smallest of the epochs executed,
\* the earliest one on ties
BestEpoch(h) ==
  CHOOSE e \in 1..Len(h) :
    /\ \A i \in 1..Len(h) : h[e].J <= h[i].J
    /\ \A i \in 1..(e - 1) : h[i].J > h[e].J

\* C4: LinFit returns as Theta the values the working Theta had at the end
\* of the epoch with the smallest full-dataset J (the earliest on ties), with
\* result J that minimum, in storage separate from the working Theta, which
\* later updates do not change.
C4_ReturnsBestEpochTheta ==
  Len(fit.hist) > 0 =>
     /\ heap["thetaBest"].d = fit.hist[BestEpoch(fit.hist)].theta
     /\ fit.JBest = fit.hist[BestEpoch(fit.hist)].J
     /\ fit.pc = "done" =>
           /\ fit.result.Theta = "thetaBest"
           /\ fit.result.Theta # GetTheta(St)
           /\ fit.result.J = fit.hist[BestEpoch(fit.hist)].J

(***************************************************************************)
(* LinFitGOM on the per-output path.  Main launches one goroutine per      *)
(* column and then collects nOutputs results from the buffered channel     *)
(* chanret; the goroutines run concurrently with main and with each other. *)
(* Columns are numbered from 0, as in the source.  What optimize.Local     *)
(* returns depends on X, Ytrue and the method, which are not modelled: it  *)
(* is drawn from Outcomes.                                                 *)
(*                                                                         *)
(* Ghost fields of gom: launches (the columns main started a goroutine     *)
(* for), order (the columns in the order collected), acc (which actor,     *)
(* goroutine o or main, -1, has read or written which object).             *)
(***************************************************************************)
MaxOutputs == 3

Main == -1

NoErr == "nil"

Failure == "Failure"

\* a goroutine not started yet
NoWorker ==
  [pc |-> "new", thetao |-> << >>, ret |-> [Status |-> "none"], err |-> NoErr,
   sends |-> 0]

\* mat.Col(dst, o, m)
Col(m, o) == [j \in 1..m.r |-> m.d[(j - 1) * m.c + o + 1]]

\* m.SetCol(o, src)
SetCol(m, o, src) ==
  [m EXCEPT !.d = [k \in Idx(m) |->
                     IF ColOf(m, k) = o THEN src[RowOf(m, k) + 1] ELSE m.d[k]]]

\* lines 916-920: thetaM with its random initial values
InitialTheta(nOutputs) ==
  DenseOf(Rows, nOutputs, [k \in 1..(Rows * nOutputs) |-> k])

\* what optimize.Local can return for column o started from thetao: the
\* result with its status, and the error that comes with a failure
Outcomes(o, thetao) ==
  LET X == [j \in 1..Len(thetao) |-> thetao[j] + (o + 1) * One]
  IN  { [ret |-> [X |-> X, F |-> 0, FuncEvaluations |-> 1,
                  Status |-> "GradientThreshold"],
         err |-> NoErr],
        [ret |-> [X |-> X, F |-> One, FuncEvaluations |-> 2,
                  Status |-> "FunctionEvaluationLimit"],
         err |-> NoErr],
        [ret |-> [X |-> thetao, F |-> 4 * One, FuncEvaluations |-> 2,
                  Status |-> Failure],
         err |-> "failure"] }

Access(actor, name, index, write) ==
  [actor |-> actor, obj |-> <<name, index>>, write |-> write]

\* lines 889-932
GomCall ==
  /\ gom.pc = "idle"
  /\ \E nOutputs \in 1..MaxOutputs, hasRecorder \in BOOLEAN :
       gom' = [NoGom EXCEPT
                 !.pc = "launch",
                 !.nOutputs = nOutputs,
                 !.hasRecorder = hasRecorder,
                 !.thetaM = InitialTheta(nOutputs),
                 !.err = NoErr,
                 !.converged = TRUE,
                 !.workers = [o \in 0..(nOutputs - 1) |-> NoWorker]]
  /\ UNCHANGED <<s, heap, panic, last, prev, ncalls, nupd, ops, limit, fit>>

\* lines 953-955: go fitOutput(o, chanret)
GomLaunch ==
  /\ gom.pc = "launch"
  /\ gom' = [gom EXCEPT
               !.workers[gom.o].pc = "start",
               !.launches = Append(gom.launches, gom.o),
               !.o = gom.o + 1,
               !.pc = IF gom.o + 1 < gom.nOutputs THEN "launch" ELSE "collect"]
  /\ UNCHANGED <<s, heap, panic, last, prev, ncalls, nupd, ops, limit, fit>>

\* lines 935-937, 949: the goroutine's buffers, and mat.Col(thetao, o, thetaM)
WorkerReadCol(o) ==
  /\ gom.workers[o].pc = "start"
  /\ gom' = [gom EXCEPT
               !.workers[o].pc = "read",
               !.workers[o].thetao = Col(gom.thetaM, o),
               !.acc = gom.acc \cup {Access(o, "thetaM", o, FALSE),
                                     Access(o, "thetao", o, TRUE)}]
  /\ UNCHANGED <<s, heap, panic, last, prev, ncalls, nupd, ops, limit, fit>>

\* line 906: every call of fSettings hands over the one opts.Recorder
RecorderAccess(o, hasRecorder) ==
  IF hasRecorder THEN {Access(o, "Recorder", 0, TRUE)} ELSE {}

\* line 950: optimize.Local(p, thetao, fSettings(), opts.GOMethodCreator()),
\* which evaluates p.Func and p.Grad on the goroutine's Ypred and Ydiff
WorkerLocal(o) ==
  /\ gom.workers[o].pc = "read"
  /\ \E out \in Outcomes(o, gom.workers[o].thetao) :
       gom' = [gom EXCEPT
                 !.workers[o].pc = "fitted",
                 !.workers[o].ret = out.ret,
                 !.workers[o].err = out.err,
                 !.acc = gom.acc \cup RecorderAccess(o, gom.hasRecorder)
                           \cup {Access(o, "Ypred", o, TRUE),
                                 Access(o, "Ydiff", o, TRUE),
                                 Access(o, "thetao", o, TRUE)}]
  /\ UNCHANGED <<s, heap, panic, last, prev, ncalls, nupd, ops, limit, fit>>

\* a message tagged with column 0 whatever the goroutine
MessageUntagged(o, w) == [o |-> 0, ret |-> w.ret, err |-> w.err, from |-> o]

\* fitOutputRes{o: o, ret: ret, err: err}
Message(o, w) == [o |-> o, ret |-> w.ret, err |-> w.err, from |-> o]

\* line 951: chanret <- ..., on a channel of capacity nOutputs
WorkerSend(o) ==
  /\ gom.workers[o].pc = "fitted"
  /\ Len(gom.chanret) < gom.nOutputs
  /\ gom' = [gom EXCEPT
               !.workers[o].pc = "done",
               !.workers[o].sends = gom.workers[o].sends + 1,
               !.chanret = Append(gom.chanret, Message(o, gom.workers[o])),
               !.acc = gom.acc \cup {Access(o, "chanret", 0, TRUE)}]
  /\ UNCHANGED <<s, heap, panic, last, prev, ncalls, nupd, ops, limit, fit>>

Worker ==
  \E o \in DOMAIN gom.workers :
     WorkerReadCol(o) \/ WorkerLocal(o) \/ WorkerSend(o)

\* the column chosen by order of arrival
TargetColByArrival(foret, o1) == o1

\* line 960: the column a collected result is written to
TargetCol(foret, o1) == foret.o

\* lines 957-963: one turn of the collector loop
GomCollect ==
  /\ gom.pc = "collect"
  /\ gom.o1 < gom.nOutputs
  /\ gom.chanret # << >>
  /\ LET foret == Head(gom.chanret)
         col == TargetCol(foret, gom.o1)
     IN  gom' = [gom EXCEPT
                   !.chanret = Tail(gom.chanret),
                   !.thetaM = SetCol(gom.thetaM, col, foret.ret.X),
                   !.rmse = gom.rmse + foret.ret.F,
                   !.epoch = gom.epoch + foret.ret.FuncEvaluations,
                   !.converged = gom.converged /\ foret.ret.Status # Failure,
                   !.o1 = gom.o1 + 1,
                   !.order = Append(gom.order, foret.o),
                   !.acc = gom.acc \cup {Access(Main, "chanret", 0, TRUE),
                                         Access(Main, "thetaM", col, TRUE)}]
  /\ UNCHANGED <<s, heap, panic, last, prev, ncalls, nupd, ops, limit, fit>>

\* lines 965, 988-989: the collector loop has ended
GomReturn ==
  /\ gom.pc = "collect"
  /\ gom.o1 >= gom.nOutputs
  /\ gom' = [gom EXCEPT
               !.pc = "done",
               !.rmse = FSqrt(gom.rmse) \div gom.nOutputs,
               !.converged = (gom.err = NoErr),
               !.result = [Converged |-> (gom.err = NoErr),
                           RMSE |-> FSqrt(gom.rmse) \div gom.nOutputs,
                           J |-> 0, Epoch |-> gom.epoch, Theta |-> "thetaM"]]
  /\ UNCHANGED <<s, heap, panic, last, prev, ncalls, nupd, ops, limit, fit>>

InitGOM ==
  /\ s = NewOptimizer("sgd")
  /\ heap = InitHeap
  /\ panic = NoPanic
  /\ last = NoCall
  /\ prev = NoCall
  /\ ncalls = 0
  /\ nupd = 0
  /\ ops = << >>
  /\ limit = 0
  /\ fit = NoFit
  /\ gom = NoGom

NextGOM ==
  \/ GomCall
  \/ GomLaunch
  \/ Worker
  \/ GomCollect
  \/ GomReturn

SpecGOM == InitGOM /\ [][NextGOM]_vars

Columns == 0..(gom.nOutputs - 1)

\* the sum of f over the columns 0..(n - 1)
RECURSIVE SumOver(_, _)
SumOver(f, n) == IF n = 0 THEN 0 ELSE f[n - 1] + SumOver(f, n - 1)

ColumnFailed(o) ==
  gom.workers[o].ret.Status = Failure \/ gom.workers[o].err # NoErr

\* C5: the returned Converged is the AND over columns, false whenever a
\* column's minimization ended with a failure status or an error and true
\* only when every column succeeded, and a failing column does not stop the
\* other columns: every column's result is collected.
C5_ConvergedIsAndOverColumns ==
  gom.pc = "done" =>
     /\ gom.result.Converged <=> \A o \in Columns : ~ColumnFailed(o)
     /\ \A o \in Columns : gom.workers[o].pc = "done"
     /\ Len(gom.order) = gom.nOutputs

\* C6: whatever the order in which the goroutines complete, column o of the
\* returned Theta holds the parameters the goroutine launched for column o
\* produced, and the returned epoch count is the sum of the columns'
\* function-evaluation counts.
C6_ResultIndependentOfArrival ==
  /\ \A i \in 1..Len(gom.order) :
        Col(gom.thetaM, gom.order[i]) = gom.workers[gom.order[i]].ret.X
  /\ gom.pc = "done" =>
        /\ gom.result.Theta = "thetaM"
        /\ \A o \in Columns : Col(gom.thetaM, o) = gom.workers[o].ret.X
        /\ gom.result.Epoch =
              SumOver([o \in Columns |-> gom.workers[o].ret.FuncEvaluations],
                      gom.nOutputs)

\* three columns collected in an order that is not the order of launch, with
\* different evaluation counts
C6_Witness ==
  /\ gom.pc = "done"
  /\ gom.order = <<2, 0, 1>>
  /\ gom.workers[0].ret.FuncEvaluations # gom.workers[2].ret.FuncEvaluations
  /\ gom.result.Epoch = 5

\* C7: exactly nOutputs goroutines are launched, each sends exactly one
\* result tagged with its own column, and the collector receives exactly
\* nOutputs results: every column once, none twice, none missed, and the
\* loop ends after the nOutputs-th receive.
C7_OneResultPerColumn ==
  /\ Len(gom.launches) <= gom.nOutputs
  /\ \A i \in 1..Len(gom.launches) : gom.launches[i] = i - 1
  /\ \A o \in Columns :
        gom.workers[o].sends = IF gom.workers[o].pc = "done" THEN 1 ELSE 0
  /\ \A i \in 1..Len(gom.chanret) : gom.chanret[i].o = gom.chanret[i].from
  /\ \A i, j \in 1..Len(gom.chanret) :
        i # j => gom.chanret[i].from # gom.chanret[j].from
  /\ Len(gom.order) = gom.o1
  /\ gom.o1 <= gom.nOutputs
  /\ \A i, j \in 1..Len(gom.order) : i # j => gom.order[i] # gom.order[j]
  /\ \A i \in 1..Len(gom.order) : gom.workers[gom.order[i]].pc = "done"
  /\ gom.pc = "done" =>
        /\ Len(gom.launches) = gom.nOutputs
        /\ {gom.order[i] : i \in 1..Len(gom.order)} = Columns
        /\ gom.o1 = gom.nOutputs
        /\ gom.chanret = << >>

\* three columns, the one launched last collected first, every goroutine
\* having sent once
C7_Witness ==
  /\ gom.pc = "done"
  /\ gom.nOutputs = MaxOutputs
  /\ gom.order[1] = gom.nOutputs - 1
  /\ gom.o1 = gom.nOutputs
  /\ \A o \in Columns : gom.workers[o].sends = 1

Buffers == {"Ypred", "Ydiff", "thetao"}

\* C8: the result channel is the only mutable structure the concurrent
\* column fits share: a goroutine reads and writes only its own Ypred, Ydiff
\* and thetao, nothing one goroutine writes is read or written by another,
\* and the collector writes column o of thetaM only after goroutine o has
\* read it and delivered its result.
C8_OnlyChannelShared ==
  /\ \A a \in gom.acc :
        a.obj[1] \in Buffers => a.actor = a.obj[2]
  /\ \A a, b \in gom.acc :
        (/\ a.actor # Main
         /\ b.actor # Main
         /\ a.actor # b.actor
         /\ a.obj = b.obj
         /\ a.write) => a.obj[1] = "chanret"
  /\ \A a \in gom.acc :
        (a.actor = Main /\ a.obj[1] = "thetaM") =>
           /\ gom.workers[a.obj[2]].pc = "done"
           /\ Access(a.obj[2], "thetaM", a.obj[2], FALSE) \in gom.acc

(***************************************************************************)
(* Further properties of the optimizer and its adapter.                    *)
(***************************************************************************)
\* C11: whenever Init returns without error, the operation returned is
\* FuncEvaluation|GradEvaluation and the update buffer is allocated with
\* shape NFeatures x NOutputs, whatever NFeatures and NOutputs were,
\* zero included.
C11_InitSuccessRequestsEvaluation ==
  (last.call = "Init" /\ ~last.err) =>
     /\ last.op = FuncGradEvaluation
     /\ heap["Update"] = NewDense(s.NFeatures, s.NOutputs)

SameShape(m, n) == m.r = n.r /\ m.c = n.c

\* the case of C12: grad differs in shape from the bound Theta that
\* UpdateParams is to update, or from the first gradient seen, whose shape
\* PrevUpdate was given (line 249)
ShapeMismatch(call, grad) ==
  \/ /\ call = "UpdateParams"
     /\ s.Theta # "nil"
     /\ ~SameShape(heap[s.Theta], grad)
  \/ /\ heap["PrevUpdate"] # NilMat
     /\ ~SameShape(heap["PrevUpdate"], grad)

\* C12: UpdateParams or GetUpdate called with a gradient of the wrong shape
\* fails with a shape-mismatch failure before any numeric work: TimeStep,
\* the accumulators, PrevUpdate and Theta keep the values they had.
C12_ShapeMismatchFailsFast ==
  [][(/\ ncalls' = ncalls + 1
      /\ last'.call \in UpdateCalls
      /\ ShapeMismatch(last'.call, last'.grad)) =>
        /\ panic' = ErrShape
        /\ s'.TimeStep = s.TimeStep
        /\ \A a \in (Own \ {"Update"}) \cup CallerThetas :
              heap'[a] = heap[a]]_vars

Flags(o) == <<o.Adagrad, o.Adadelta, o.RMSProp, o.Adam>>

FlagCount(o) == Cardinality({i \in 1..4 : Flags(o)[i]})

\* C13: every constructor sets at most one of the flags Adagrad, Adadelta,
\* RMSProp, Adam (none for "sgd", its own for each other name), and no call
\* of SetTheta, GetUpdate, UpdateParams, Init or Iterate changes them.
C13_OneVariantForever ==
  /\ [](/\ FlagCount(s) <= 1
        /\ \A name \in Names : FlagCount(NewOptimizer(name)) <= 1
        /\ FlagCount(NewOptimizer("sgd")) = 0
        /\ FlagCount(NewSGDOptimizer) = 0
        /\ NewAdagradOptimizer.Adagrad
        /\ NewAdadeltaOptimizer.Adadelta
        /\ NewRMSPropOptimizer.RMSProp
        /\ NewAdamOptimizer.Adam)
  /\ [][Flags(s') = Flags(s)]_vars

\* an Adadelta optimizer after SetTheta, UpdateParams, GetUpdate and Iterate
C13_Witness ==
  /\ s.Adadelta
  /\ FlagCount(s) = 1
  /\ panic = NoPanic
  /\ ncalls = 4
  /\ last.call = "Iterate"
  /\ prev.call = "GetUpdate"
  /\ nupd = 3

(***************************************************************************)
(* LinearRegression.Fit called more than once on one LinearRegression:     *)
(* every call hands regr.Optimizer, the same optimizer value, to LinFit as *)
(* opts.Solver.  ncalls counts the calls of Fit.  The addresses "theta0"   *)
(* and "thetaBest" name the slices of the call in progress.                *)
(***************************************************************************)
MaxFits == 2

\* lines 520-529 and LinFit up to the first test of the epoch loop, with
\* regr.Options.Epochs = 1 and the default mini-batch size
Fit ==
  /\ fit.pc \in {"idle", "done"}
  /\ panic = NoPanic
  /\ ncalls < limit
  /\ \E nSamples \in SampleCounts :
       LET st == SetTheta(FitBuffers(St), "theta0")
       IN  /\ s' = st.s
           /\ heap' = st.heap
           /\ panic' = st.panic
           /\ fit' = LoopHead([NoFit EXCEPT
                        !.nSamples = nSamples,
                        !.optEpochs = 1,
                        !.Epochs = EpochBudget(1, nSamples),
                        !.miniBatchSize = MiniBatchSizeOf(nSamples, 0),
                        !.epoch = 1])
  /\ ncalls' = ncalls + 1
  /\ UNCHANGED <<last, prev, nupd, ops, limit, gom>>

InitRefit ==
  /\ \E name \in Names : s = NewOptimizer(name)
  /\ heap = InitHeap
  /\ panic = NoPanic
  /\ last = NoCall
  /\ prev = NoCall
  /\ ncalls = 0
  /\ nupd = 0
  /\ ops = << >>
  /\ limit = MaxFits
  /\ fit = NoFit
  /\ gom = NoGom

NextRefit ==
  \/ Fit
  \/ LinFitMiniBatch
  \/ LinFitEndEpoch
  \/ LinFitReturn

SpecRefit == InitRefit /\ [][NextRefit]_vars

\* a fit has just entered its first epoch
FitStarted == fit.pc = "batch" /\ fit.epoch = 1 /\ fit.miniBatch = 0

\* C14: at the start of every fit the update rule's TimeStep is 0 and its
\* accumulators and update buffer are unallocated or freshly allocated, so
\* a second Fit with the same optimizer carries nothing over from the first.
C14_NoStateAcrossFits ==
  FitStarted =>
     /\ GetTimeStep(St) = 0
     /\ \A a \in Own : heap[a] \in {NilMat, NewDense(Rows, Cols)}

(***************************************************************************)
(* Properties of LinFit's epoch loop.                                      *)
(***************************************************************************)
Epochs == 1..Len(fit.hist)

\* the tolerance test of an epoch: sqrt(RMSE) < Tol
Passes(e) == FSqrt(fit.hist[e].rmse) < Tol

\* C15: the convergence flag is recomputed once per epoch, after the epoch's
\* mini-batches, as sqrt(RMSE) < Tol for the full-dataset RMSE of that
\* epoch; mini-batches never set it, and the Converged returned is the test
\* of the last epoch executed, false when none was.
C15_ConvergedIsLastEpochTest ==
  /\ fit.converged <=> (Len(fit.hist) > 0 /\ Passes(Len(fit.hist)))
  /\ fit.pc = "done" =>
        (fit.result.Converged <=> (Len(fit.hist) > 0 /\ Passes(Len(fit.hist))))

\* a fit that ended on its second epoch, whose test passed after the first
\* epoch's had failed on an rmse below Tol
C15_Witness ==
  /\ fit.pc = "done"
  /\ Len(fit.hist) = 2
  /\ fit.hist[1].rmse < Tol
  /\ ~Passes(1)
  /\ Len(fit.hist[2].batches) = 2
  /\ fit.result.Converged

\* the epoch budget: Epochs, or 1e6 / nSamples when Epochs is unset
Budget ==
  IF fit.optEpochs <= 0 THEN 1000000 \div fit.nSamples ELSE fit.optEpochs

\* mini-batches in an epoch of f
BatchCount(f) == (f.nSamples + f.miniBatchSize - 1) \div f.miniBatchSize

\* a bound on the steps a call of LinFit in state f has left: the
\* mini-batches and the end of the epoch in progress, the epochs the budget
\* still allows, and the return
Remaining(f) ==
  IF f.pc = "done" THEN 0
  ELSE IF f.pc = "return" THEN 1
  ELSE (BatchCount(f) - f.miniBatch) + 1
         + (f.Epochs - Len(f.hist) - 1) * (BatchCount(f) + 1) + 1

\* C16: the loop always terminates (a call that has not returned is at a
\* mini-batch, at the end of an epoch or at the return, every step lowers
\* Remaining, and Remaining is never negative), and the
\* number of epochs executed is the smaller of the epoch budget and the
\* index of the first epoch whose convergence test passes: no epoch runs
\* after a test has passed or after the budget is spent.
C16_TerminatesWithinBudget ==
  /\ [](fit.pc # "idle" =>
          /\ Len(fit.hist) <= Budget
          /\ \A e \in Epochs : e < Len(fit.hist) => ~Passes(e)
          /\ fit.pc = "batch" =>
                /\ Len(fit.hist) < Budget
                /\ \A e \in Epochs : ~Passes(e)
          /\ fit.pc \in {"return", "done"} =>
                \/ Len(fit.hist) = Budget
                \/ Len(fit.hist) > 0 /\ Passes(Len(fit.hist)))
  /\ []((fit.pc \notin {"idle", "done"} /\ panic = NoPanic) =>
          /\ Remaining(fit) > 0
          /\ \/ fit.pc = "batch" /\ MoreBatches(fit)
             \/ fit.pc = "batch" /\ ~MoreBatches(fit)
             \/ fit.pc = "return")
  /\ [][fit.pc # "idle" => Remaining(fit') < Remaining(fit)]_vars

\* a fit with Epochs unset that spent its default budget of two epochs
\* without converging
C16_Witness ==
  /\ fit.pc = "done"
  /\ fit.optEpochs = 0
  /\ fit.nSamples = 500000
  /\ Len(fit.hist) = 2
  /\ ~fit.result.Converged
  /\ fit.result.Epoch = 3

\* the effective batch size: MiniBatchSize if set, else sqrt(nSamples)
\* clamped to [1, 100]; capped at nSamples and at least 1
EffectiveSize ==
  LET root == ISqrtIter(fit.nSamples, 0, 46340)
      size == IF fit.optSize > 0 THEN fit.optSize
              ELSE IF root < 1 THEN 1 ELSE IF root > 100 THEN 100 ELSE root
      capped == IF size > fit.nSamples THEN fit.nSamples ELSE size
  IN  IF capped < 1 THEN 1 ELSE capped

\* b[1..n] are the first n mini-batches of an epoch: contiguous row ranges
\* from row 0, each of the effective size but a last one that ends with the
\* rows
FirstBatches(b, n, size) ==
  /\ Len(b) = n
  /\ \A i \in 1..n :
        /\ b[i].start = (i - 1) * size
        /\ b[i].start < fit.nSamples
        /\ b[i].end = IF i * size < fit.nSamples THEN i * size
                      ELSE fit.nSamples

\* ceil(nSamples / size)
BatchesPerEpoch(size) == (fit.nSamples + size - 1) \div size

\* the mini-batches of the epochs executed and of the epoch in progress
\* partition the rows in batches of the given size, each given one update
PartitionedBy(size) ==
  /\ \A e \in Epochs :
        FirstBatches(fit.hist[e].batches, BatchesPerEpoch(size), size)
  /\ FirstBatches(fit.batches, Len(fit.batches), size)
  /\ Len(fit.batches) <= BatchesPerEpoch(size)
  /\ nupd = Len(fit.hist) * BatchesPerEpoch(size) + Len(fit.batches)

\* C19: in every epoch the mini-batches are contiguous row ranges that
\* partition [0, nSamples), each of the effective batch size except possibly
\* a shorter last one, and UpdateParams is called exactly once per
\* mini-batch, ceil(nSamples / batchSize) times per epoch.
C19_MiniBatchesPartitionRows ==
  fit.pc # "idle" =>
     /\ PartitionedBy(EffectiveSize)
     /\ fit.pc \in {"return", "done"} => fit.batches = << >>
     /\ GetTimeStep(St) = nupd

\* an epoch over three rows in mini-batches of two: rows 0-1, then row 2
C19_Witness ==
  /\ fit.pc = "done"
  /\ fit.nSamples = 3
  /\ Len(fit.hist) = 1
  /\ fit.hist[1].batches = <<[start |-> 0, end |-> 2], [start |-> 2, end |-> 3]>>
  /\ nupd = 2

(***************************************************************************)
(* Properties of GetUpdate's numeric work, stated on the state an update   *)
(* call leaves: last.grad is its gradient and, with clipping on, GtNorm    *)
(* holds the norms of that gradient's columns.                             *)
(***************************************************************************)
UpdateRan == last.call \in UpdateCalls /\ panic = NoPanic

RowsOf(m) == 0..(m.r - 1)

ColsOf(m) == 0..(m.c - 1)

\* the value GetUpdate used for element (j, o) of the last gradient
Used(j, o) == gradientClipped(St, last.grad, j, o)

\* the squared L2 norm of column o of the values used
RECURSIVE UsedSumSq(_, _)
UsedSumSq(o, j) ==
  IF j >= last.grad.r THEN 0 ELSE Used(j, o) * Used(j, o) + UsedSumSq(o, j + 1)

\* the norm of column o of the last gradient
Norm(o) == colNorm(last.grad, o)

Unchanged(o) == \A j \in RowsOf(last.grad) : Used(j, o) = At(last.grad, j, o)

StateBuffers ==
  {"GtNorm", "PrevUpdate", "AdagradG", "AdadeltaU", "Mt", "Vt", "Mtcap", "Vtcap"}

\* the variant and settings that make GetUpdate allocate buffer a
Gate(a) ==
  CASE a = "GtNorm" -> s.GradientClipping > 0
    [] a = "PrevUpdate" -> TRUE
    [] a = "AdagradG" -> s.Adagrad \/ s.RMSProp \/ s.Adadelta
    [] a = "AdadeltaU" -> s.Adadelta
    [] OTHER -> s.Adam

Shape(m) == <<m.r, m.c>>

\* the shape of the gradient a call hands to GetUpdate: Iterate builds it
\* from NFeatures and NOutputs (line 400)
GradShape(rec) ==
  IF rec.call = "Iterate" THEN <<s.NFeatures, s.NOutputs>> ELSE Shape(rec.grad)

\* the shape line 241-262 give buffer a for a gradient of shape sh
BufferShape(a, sh) == IF a = "GtNorm" THEN <<sh[2], 1>> ELSE sh

\* the buffers that accumulate over the calls; PrevUpdate is the other one
Accumulators == StateBuffers \ {"PrevUpdate"}

GradOf(rec) ==
  IF rec.call = "Iterate" THEN DenseOf(s.NFeatures, s.NOutputs, rec.grad.d)
  ELSE rec.grad

\* a call that ran GetUpdate to its end
GetUpdateRan(rec) == rec.call \in UpdateCalls \cup {"Iterate"} /\ panic = NoPanic

\* lines 350-355 for an optimizer sp without clipping: -eta * g / sqrt(TimeStep)
PlainValue(sp, g) ==
  FDiv(FMul(-Eta([s |-> sp]), g), FSqrt(One * sp.TimeStep))

\* the momentum term GetUpdate reads at (j, o): nothing on the first call
MomentumTerm(j, o) ==
  IF s.TimeStep = 0 THEN 0 ELSE FMul(s.Momentum, At(heap["PrevUpdate"], j, o))

\* C20: with Momentum > 0 the update a GetUpdate call produces is the variant's
\* update plus Momentum times the update the previous GetUpdate call produced
\* (nothing for the first); after every such call PrevUpdate holds the values
\* of the update just produced, in storage of its own that no other call
\* changes.
C20_MomentumBlendsPreviousUpdate ==
  /\ [](GetUpdateRan(last) => heap["PrevUpdate"] = last.update)
  /\ [][/\ (s.Momentum > 0 /\ s'.TimeStep > s.TimeStep /\ panic' = NoPanic) =>
              \A j \in RowsOf(last'.update), o \in ColsOf(last'.update) :
                 At(last'.update, j, o) =
                    PlainValue(s', At(GradOf(last'), j, o)) + MomentumTerm(j, o)
        /\ s'.TimeStep = s.TimeStep => heap'["PrevUpdate"] = heap["PrevUpdate"]]_vars

\* two GetUpdate calls in a row into the caller's buffer, the second blending
\* the first's update, which the buffer no longer holds
C20_Witness ==
  /\ s.Momentum > 0
  /\ s.TimeStep = 2
  /\ prev.call = "GetUpdate"
  /\ last.call = "GetUpdate"
  /\ panic = NoPanic
  /\ At(prev.update, 0, 0) # 0
  /\ At(last.update, 0, 0) =
        PlainValue(s, At(last.grad, 0, 0)) + FMul(s.Momentum, At(prev.update, 0, 0))
  /\ heap["upd"] = last.update
  /\ heap["upd"] # prev.update
  /\ heap["PrevUpdate"] = last.update

(***************************************************************************)
(* The result LinFit returns (lines 883-885).                              *)
(***************************************************************************)
\* C21: the Epoch field of the result LinFit returns is the number of epochs
\* executed (the length of hist), whether the loop stopped on the convergence
\* test or on the epoch budget.
C21_EpochIsEpochsExecuted ==
  fit.pc = "done" => fit.result.Epoch = Len(fit.hist)

\* C22: the RMSE and Converged LinFit returns are the values computed at the
\* epoch whose Theta snapshot it returns, so that Converged means the
\* returned Theta passed the tolerance test.  Stated for the runs in which
\* some epoch had a J below +Inf and so was snapshotted.
C22_ResultDescribesReturnedTheta ==
  (fit.pc = "done" /\ \E e \in Epochs : fit.hist[e].J < Inf) =>
     /\ heap[fit.result.Theta].d = fit.hist[BestEpoch(fit.hist)].theta
     /\ fit.result.RMSE = fit.hist[BestEpoch(fit.hist)].rmse
     /\ fit.result.Converged = Converged(fit.hist[BestEpoch(fit.hist)].rmse)

(***************************************************************************)
(* The adapter's Iterate and Init over a run (lines 379-412).              *)
(***************************************************************************)
\* C23: every Iterate call that returns, whatever operation it returns,
\* applies one update-rule step: TimeStep advances by one, and the update
\* GetUpdate computes from loc.Gradient is added into loc.X in place; after k
\* such calls TimeStep has grown by k.
C23_IterateAppliesOneStep ==
  /\ [](panic = NoPanic => s.TimeStep = Len(ops))
  /\ [][(ncalls' = ncalls + 1 /\ last'.call = "Iterate" /\ panic' = NoPanic) =>
          /\ s'.TimeStep = s.TimeStep + 1
          /\ heap'["Update"] =
                GetUpdate(WithLoc(St, last'.n), "Update", GradOf(last')).heap["Update"]
          /\ last'.update = heap'["Update"]
          /\ heap'["locX"].r = last'.n
          /\ \A k \in 1..last'.n :
                heap'["locX"].d[k] =
                   WithLoc(St, last'.n).heap["locX"].d[k] + heap'["Update"].d[k]]_vars

\* three calls of Iterate, one of them signalling a major iteration, have
\* moved loc.X by their updates
C23_Witness ==
  /\ panic = NoPanic
  /\ last.call = "Iterate"
  /\ prev.call = "Iterate"
  /\ s.TimeStep = 3
  /\ Len(ops) = 3
  /\ ops[2] = MajorIteration
  /\ last.op = FuncGradEvaluation
  /\ \E k \in 1..last.n : last.update.d[k] # 0 /\ heap["locX"].d[k] # 0

\* C24: Init starts a fresh run of the adapter protocol: whatever calls of
\* Init and Iterate came before, the evaluation a successful Init requests
\* counts as the last requested operation, so the first Iterate after it
\* signals MajorIteration and the operations that follow are those of a
\* freshly constructed optimizer.
C24_InitStartsFreshRun ==
  (/\ last.call = "Iterate"
   /\ panic = NoPanic
   /\ prev.call = "Init"
   /\ ~prev.err
   /\ prev.op = FuncGradEvaluation) => last.op = MajorIteration
=============================================================================
